---- MODULE Spec2Model ----
(***************************************************************************)
(* Model of the OpenAI gateway (src/src/index.ts): one inbound HTTP        *)
(* request passing through the Express middleware chain, and for           *)
(* POST /v1/chat/completions through handleConversation -> getNewSession   *)
(* (retry loop) -> getCompletionWithOpenAi.                                *)
(*                                                                         *)
(* The source holds two variants of the program: the conversation variant  *)
(* (lines 1-180, compiled copy at lines 355-468), which posts              *)
(* {session, conversation}, and the session-only variant (lines 182-354),  *)
(* which posts the session alone and substitutes no default error          *)
(* message.  `variant` says which one is running.                          *)
(*                                                                         *)
(* JSON objects are functions from the names of the fields that are        *)
(* present to their values; an absent field is a name outside DOMAIN.      *)
(* An upstream reply is [status, kind, data]: kind says whether axios      *)
(* parsed the body to an object, to a non-object primitive ("text") or to  *)
(* null.  axios resolves on a 2xx status and rejects otherwise.            *)
(***************************************************************************)
EXTENDS Integers, Sequences, FiniteSets, TLC

\* ------------------------------------------------------------------ bounds
NumBundles == 2          \* distinct session bundles handed out upstream
NumConversations == 2    \* distinct inbound conversation bodies
RecoverBy == 2           \* last session call of a request that can succeed
                         \* when two requests run concurrently

\* ------------------------------------------------------- program constants
newSessionRetries == 100
InternalErrorStatus == 500
NotFoundStatus == 404
OkStatus == 200

InternalErrorMessage == "Internal server error"
SessionDefaultError == "Error while getting session..."
CompletionDefaultError == "Error while getting completions..."
WelcomeText == "Welcome OpenAI Gateway API - The service running correctly"

\* ------------------------------------------------------------ JSON objects
EmptyObject == <<>>
Has(b, k) == k \in DOMAIN b
With(b, k, v) == [x \in (DOMAIN b) \cup {k} |-> IF x = k THEN v ELSE b[x]]
AddOpt(S, k, V) == S \cup { With(b, k, v) : b \in S, v \in V }

\* JavaScript truthiness of the fields the code tests with `!`
TruthyStatus(b) == Has(b, "status") /\ b.status = TRUE
TruthyError(b) == Has(b, "error") /\ b.error # ""

\* mutant: the guard of line 117 lets every composed request through
TruthySession_Always(b) == TRUE

TruthySession(b) == Has(b, "session")

\* ---------------------------------------------------------- inbound inputs
Methods == {"GET", "POST", "OPTIONS", "PUT"}
Paths == {"/", "/v1/chat/completions", "/unknown-path"}
Conversations ==
    { [model |-> "gpt", messages |-> n] : n \in 1..NumConversations }
Requests == [method : Methods, path : Paths, body : Conversations]
NoRequest == [method |-> "", path |-> "", body |-> EmptyObject]

\* --------------------------------------------------------- upstream inputs
Bundles == { [token |-> n] : n \in 1..NumBundles }
UpstreamOkStatuses == {200, 201}
UpstreamErrorStatuses == {404, 503}
UpstreamErrorMessage == "upstream failed"

\* bodies of 2xx replies of the session endpoint
SessionBodies ==
    AddOpt(AddOpt(AddOpt(AddOpt({EmptyObject},
        "status", BOOLEAN), "data", Bundles), "error", {UpstreamErrorMessage}),
        "statusCode", {OkStatus, InternalErrorStatus})

\* bodies of 2xx replies of the completion endpoint, besides the echo
CompletionBodies ==
    AddOpt(AddOpt(AddOpt(AddOpt({EmptyObject},
        "status", BOOLEAN), "data", {"answer"}),
        "error", {UpstreamErrorMessage}),
        "statusCode", {InternalErrorStatus})

\* bodies of non-2xx replies: an object with or without `message`, a
\* non-object primitive, or JSON null
ErrorObjects == AddOpt({EmptyObject}, "message", {UpstreamErrorMessage})
ObjectReply(s, b) == [status |-> s, kind |-> "object", data |-> b]
TextReply(s) == [status |-> s, kind |-> "text", data |-> EmptyObject]
NullReply(s) == [status |-> s, kind |-> "null", data |-> EmptyObject]
ErrorReplies ==
    { ObjectReply(s, b) : s \in UpstreamErrorStatuses, b \in ErrorObjects }
    \cup { TextReply(s) : s \in UpstreamErrorStatuses }
    \cup { NullReply(s) : s \in UpstreamErrorStatuses }

\* values a catch clause can bind
NoError == [kind |-> "none"]
NullError == [kind |-> "null"]                 \* the literal null of line 117
NetworkError == [kind |-> "network"]            \* AxiosError without response
TypeError == [kind |-> "TypeError"]             \* thrown by the runtime
HttpError(reply) == [kind |-> "http", response |-> reply]
ThrownBySessionFetch ==
    {NetworkError} \cup { HttpError(r) : r \in ErrorReplies }

NoResponse == EmptyObject
NoReply == [status |-> 0, kind |-> "none", data |-> EmptyObject]

VARIABLES
    variant,            \* which variant of the program is deployed
    pc,                 \* position of the request in the handler state machine
    request,            \* the inbound request (method, path, parsed body)
    pending,            \* outstanding asynchronous operations of the request
    retries,            \* argument `retries` of the current getNewSession frame
    caught,             \* `error` bound by the catch clause of that frame
    waits,              \* number of wait(1) timers of the request that fired
    sessionReply,       \* `response` of line 95 while getNewSession holds it
    sessionResponse,    \* value getNewSession returned (NoResponse before)
    completionRequest,  \* argument of getCompletionWithOpenAi (body it posts)
    completionReply,    \* raw 2xx reply of the completion endpoint
    completionCaught,   \* `error` bound by the catch clause of line 126
    completionResponse, \* value getCompletionWithOpenAi returned
    responses,          \* responses sent to the caller, in order
    sessionCalls,       \* number of axiosInstance.get(sessionUrl) calls issued
    completionCalls,    \* number of axiosInstance.post(completionUrl) calls
    peer                \* the state of a second request, while the event loop
                        \* runs the continuations of the one above

vars == <<variant, pc, request, pending, retries, caught, waits,
          sessionReply, sessionResponse,
          completionRequest, completionReply, completionCaught,
          completionResponse, responses, sessionCalls, completionCalls,
          peer>>

\* everything the program holds for one inbound request: the locals of
\* handleConversation, getNewSession and getCompletionWithOpenAi, which are
\* all the mutable state there is (no module-level variable is assigned)
Frame ==
    [pc |-> pc, request |-> request, pending |-> pending,
     retries |-> retries, caught |-> caught, waits |-> waits,
     sessionReply |-> sessionReply, sessionResponse |-> sessionResponse,
     completionRequest |-> completionRequest,
     completionReply |-> completionReply,
     completionCaught |-> completionCaught,
     completionResponse |-> completionResponse,
     responses |-> responses, sessionCalls |-> sessionCalls,
     completionCalls |-> completionCalls]

IdleFrame ==
    [pc |-> "idle", request |-> NoRequest, pending |-> {},
     retries |-> 0, caught |-> NoError, waits |-> 0,
     sessionReply |-> NoReply, sessionResponse |-> NoResponse,
     completionRequest |-> EmptyObject,
     completionReply |-> NoReply,
     completionCaught |-> NoError,
     completionResponse |-> NoResponse,
     responses |-> <<>>, sessionCalls |-> 0,
     completionCalls |-> 0]

Variants == {"conversation", "session-only"}

Init ==
    /\ variant \in Variants
    /\ pc = "idle"
    /\ request = NoRequest
    /\ pending = {}
    /\ retries = 0
    /\ caught = NoError
    /\ waits = 0
    /\ sessionReply = NoReply
    /\ sessionResponse = NoResponse
    /\ completionRequest = EmptyObject
    /\ completionReply = NoReply
    /\ completionCaught = NoError
    /\ completionResponse = NoResponse
    /\ responses = <<>>
    /\ sessionCalls = 0
    /\ completionCalls = 0
    /\ peer = IdleFrame

\* ------------------------------------------------------------ pure helpers
\* axios.isAxiosError(error) && error.response
HasUpstreamResponse(error) == error.kind = "http"

\* line 82 reads `responseBody.message`: a property read on null throws
handleErrorResponseThrows(error) ==
    HasUpstreamResponse(error) /\ error.response.kind = "null"

\* mutants of handleErrorResponse: the upstream status is not copied; a
\* failure without upstream response is reported as 503
handleErrorResponse_NoStatusCopy(error) ==
    IF error.kind = "http" /\ Has(error.response.data, "message")
    THEN [status |-> FALSE, statusCode |-> InternalErrorStatus,
          error |-> error.response.data.message]
    ELSE [status |-> FALSE, statusCode |-> InternalErrorStatus,
          error |-> InternalErrorMessage]

handleErrorResponse_Unavailable(error) ==
    IF error.kind = "http"
    THEN LET result == [status |-> FALSE, statusCode |-> error.response.status]
         IN  IF Has(error.response.data, "message")
             THEN With(result, "error", error.response.data.message)
             ELSE result
    ELSE [status |-> FALSE, statusCode |-> 503, error |-> InternalErrorMessage]

handleErrorResponse(error) ==
    IF HasUpstreamResponse(error)
    THEN LET responseBody == error.response.data
             result == [status |-> FALSE, statusCode |-> error.response.status]
         IN  IF Has(responseBody, "message")
             THEN With(result, "error", responseBody.message)
             ELSE result
    ELSE [status |-> FALSE, statusCode |-> InternalErrorStatus,
          error |-> InternalErrorMessage]

\* mutant: no default message (as in the session-only variant, line 297)
WithDefaultError_None(errorResponse, message) == errorResponse

\* `if (!errorResponse.error) errorResponse.error = <default>`
WithDefaultError(errorResponse, message) ==
    IF TruthyError(errorResponse) THEN errorResponse
    ELSE With(errorResponse, "error", message)

\* `apiResponse = response.data; apiResponse.statusCode = response.status`
ToApiResponse(reply) == With(reply.data, "statusCode", reply.status)

\* the assignment above throws a TypeError (strict mode) on a non-object body
IsObjectReply(reply) == reply.kind = "object"

\* mutant: the failures of all requests are counted together
CanRetry_SharedBudget(n) == n + peer.retries < newSessionRetries

\* mutant: off by one in the retry test
CanRetry_OffByOne(n) == n <= newSessionRetries

\* `retries < newSessionRetries`
CanRetry(n) == n < newSessionRetries

\* mutant: every relayed result goes out as 500
Relay_Always500(r) == [status |-> InternalErrorStatus, body |-> r]

\* mutant: res.json(r) without res.status(...)
Relay_DefaultStatus(r) == [status |-> OkStatus, body |-> r]

\* `res.status(r.statusCode).json(r)`
Relay(r) == [status |-> r.statusCode, body |-> r]

\* mutant: the session alone is composed (as in the session-only variant)
Compose_SessionOnly(session, conversation) ==
    IF Has(session, "data") THEN [session |-> session.data] ELSE EmptyObject

\* lines 147-152
Compose(session, conversation) ==
    IF Has(session, "data")
    THEN [session |-> session.data, conversation |-> conversation]
    ELSE [conversation |-> conversation]

\* mutant: a session some other request holds is used instead of a new one
CompletionArgument_Cached(v, session, conversation) ==
    LET cached == IF Has(peer.sessionResponse, "data")
                  THEN peer.sessionResponse ELSE session
    IN  IF v = "conversation" THEN Compose(cached, conversation)
        ELSE IF Has(cached, "data") THEN cached.data ELSE EmptyObject

\* the argument handed to getCompletionWithOpenAi: the composed request
\* (line 153), or the session itself (lines 326-327; EmptyObject stands for
\* an undefined session, no bundle being empty)
CompletionArgument(v, session, conversation) ==
    IF v = "conversation" THEN Compose(session, conversation)
    ELSE IF Has(session, "data") THEN session.data ELSE EmptyObject

\* the guards of lines 117 and 303
SessionPresent(v, argument) ==
    IF v = "conversation" THEN TruthySession(argument)
    ELSE argument # EmptyObject

\* mutants of ErrorResult: no variant substitutes a default message; the
\* result does not look at the error that was caught
ErrorResult_NoDefault(v, error, message) == handleErrorResponse(error)

ErrorResult_Generic(v, error, message) ==
    [status |-> FALSE, statusCode |-> InternalErrorStatus, error |-> message]

\* lines 105-109 and 127-131 against lines 297 and 310
ErrorResult(v, error, message) ==
    IF v = "conversation"
    THEN WithDefaultError(handleErrorResponse(error), message)
    ELSE handleErrorResponse(error)

\* mutant: enableCORS does not answer OPTIONS itself
Route_NoPreflight(req) ==
    IF req.method = "GET" /\ req.path = "/" THEN "handleDefault"
    ELSE IF req.method = "POST" /\ req.path = "/v1/chat/completions"
         THEN "handleConversation"
    ELSE "notFound"

\* middleware chain and route table, lines 158-174
Route(req) ==
    IF req.method = "OPTIONS" THEN "enableCORS"
    ELSE IF req.method = "GET" /\ req.path = "/" THEN "handleDefault"
    ELSE IF req.method = "POST" /\ req.path = "/v1/chat/completions"
         THEN "handleConversation"
    ELSE "notFound"

NotFoundBody(req) ==
    [status |-> FALSE,
     error |-> [message |-> <<req.method, req.path>>,
                type |-> "invalid_request_error"]]

\* mutant: the completion call is started together with the session call
HandlerFirstCalls_Both == {"session", "completion"}

\* calls handleConversation has outstanding right after line 141
HandlerFirstCalls == {"session"}

Send(r) == responses' = Append(responses, r)

\* ------------------------------------------------------- inbound behaviour
Receive(req) ==
    /\ pc = "idle"
    /\ pc' = "START"
    /\ request' = req
    /\ UNCHANGED <<variant, peer, completionCaught, waits, sessionReply,
                   pending, retries, caught, sessionResponse,
                   completionRequest, completionReply, completionResponse,
                   responses, sessionCalls, completionCalls>>

enableCORS ==
    /\ pc = "START"
    /\ Route(request) = "enableCORS"
    /\ Send([status |-> OkStatus, body |-> EmptyObject])
    /\ pc' = "DONE"
    /\ UNCHANGED <<variant, peer, completionCaught, waits, sessionReply,
                   request, pending, retries, caught, sessionResponse,
                   completionRequest, completionReply, completionResponse,
                   sessionCalls, completionCalls>>

handleDefault ==
    /\ pc = "START"
    /\ Route(request) = "handleDefault"
    /\ Send([status |-> OkStatus, body |-> [text |-> WelcomeText]])
    /\ pc' = "DONE"
    /\ UNCHANGED <<variant, peer, completionCaught, waits, sessionReply,
                   request, pending, retries, caught, sessionResponse,
                   completionRequest, completionReply, completionResponse,
                   sessionCalls, completionCalls>>

NotFound ==
    /\ pc = "START"
    /\ Route(request) = "notFound"
    /\ Send([status |-> NotFoundStatus, body |-> NotFoundBody(request)])
    /\ pc' = "DONE"
    /\ UNCHANGED <<variant, peer, completionCaught, waits, sessionReply,
                   request, pending, retries, caught, sessionResponse,
                   completionRequest, completionReply, completionResponse,
                   sessionCalls, completionCalls>>

\* handleConversation up to its first await: getNewSession() issues the GET
handleConversation ==
    /\ pc = "START"
    /\ Route(request) = "handleConversation"
    /\ pc' = "ACQUIRING_SESSION"
    /\ pending' = HandlerFirstCalls
    /\ retries' = 0
    /\ sessionCalls' = sessionCalls + 1
    /\ completionCalls' =
           completionCalls + Cardinality(HandlerFirstCalls \cap {"completion"})
    /\ UNCHANGED <<variant, peer, completionCaught, waits, sessionReply,
                   request, caught, sessionResponse, completionRequest,
                   completionReply, completionResponse, responses>>

\* ----------------------------------------------------------- getNewSession
\* the GET resolves (2xx) with an object body: lines 96-98
SessionReturns(reply) ==
    /\ pc = "ACQUIRING_SESSION"
    /\ "session" \in pending
    /\ IsObjectReply(reply)
    /\ sessionReply' = reply
    /\ sessionResponse' = ToApiResponse(reply)
    /\ pending' = pending \ {"session"}
    /\ UNCHANGED <<variant, peer, completionCaught, waits, pc, request,
                   retries, caught, completionRequest, completionReply,
                   completionResponse, responses, sessionCalls,
                   completionCalls>>

\* the GET resolves (2xx) with a non-object body: line 97 throws inside the
\* try block, the catch clause starts the wait
SessionBodyThrows(reply) ==
    /\ pc = "ACQUIRING_SESSION"
    /\ "session" \in pending
    /\ ~IsObjectReply(reply)
    /\ caught' = TypeError
    /\ pending' = (pending \ {"session"}) \cup {"timer"}
    /\ UNCHANGED <<variant, peer, completionCaught, waits, sessionReply, pc,
                   request, retries, sessionResponse, completionRequest,
                   completionReply, completionResponse, responses,
                   sessionCalls, completionCalls>>

\* the GET rejects (network failure or non-2xx reply): lines 99-100
SessionThrows(error) ==
    /\ pc = "ACQUIRING_SESSION"
    /\ "session" \in pending
    /\ caught' = error
    /\ pending' = (pending \ {"session"}) \cup {"timer"}
    /\ UNCHANGED <<variant, peer, completionCaught, waits, sessionReply, pc,
                   request, retries, sessionResponse, completionRequest,
                   completionReply, completionResponse, responses,
                   sessionCalls, completionCalls>>

\* the timer of wait(1) fires: line 62
TimerFires ==
    /\ "timer" \in pending
    /\ pending' = pending \ {"timer"}
    /\ waits' = waits + 1
    /\ UNCHANGED <<variant, peer, completionCaught, sessionReply, pc, request,
                   retries, caught, sessionResponse, completionRequest,
                   completionReply, completionResponse, responses,
                   sessionCalls, completionCalls>>

\* mutant: wait(1) is started but not awaited
WaitAwaited_Not == TRUE

\* `await wait(1)`, line 100: the catch clause goes on once the timer fired
WaitAwaited == "timer" \notin pending

\* the catch clause of the current frame is past line 100
CatchResumes ==
    /\ pc = "ACQUIRING_SESSION"
    /\ caught # NoError
    /\ sessionResponse = NoResponse
    /\ "session" \notin pending
    /\ WaitAwaited

\* retries < newSessionRetries: lines 102-103, 95
Retry ==
    /\ CatchResumes
    /\ CanRetry(retries)
    /\ retries' = retries + 1
    /\ caught' = NoError
    /\ pending' = pending \cup {"session"}
    /\ sessionCalls' = sessionCalls + 1
    /\ UNCHANGED <<variant, peer, completionCaught, waits, sessionReply, pc,
                   request, sessionResponse, completionRequest,
                   completionReply, completionResponse, responses,
                   completionCalls>>

\* the retries are used up: lines 104-110
GiveUp ==
    /\ CatchResumes
    /\ ~CanRetry(retries)
    /\ ~handleErrorResponseThrows(caught)
    /\ sessionResponse' = ErrorResult(variant, caught, SessionDefaultError)
    /\ UNCHANGED <<variant, peer, completionCaught, waits, sessionReply,
                   pending, pc, request, retries, caught, completionRequest,
                   completionReply, completionResponse, responses,
                   sessionCalls, completionCalls>>

\* as GiveUp, but line 82 throws: getNewSession rejects, and so does
\* handleConversation, which has no try block around line 141
GiveUpThrows ==
    /\ CatchResumes
    /\ ~CanRetry(retries)
    /\ handleErrorResponseThrows(caught)
    /\ pc' = "REJECTED"
    /\ UNCHANGED <<variant, peer, completionCaught, waits, sessionReply,
                   pending, request, retries, caught, sessionResponse,
                   completionRequest, completionReply, completionResponse,
                   responses, sessionCalls, completionCalls>>

\* ------------------------------------------ handleConversation, lines 142-155
GetNewSessionSettled == sessionResponse # NoResponse

SessionFailed ==
    /\ pc = "ACQUIRING_SESSION"
    /\ GetNewSessionSettled
    /\ ~TruthyStatus(sessionResponse)
    /\ Send(Relay(sessionResponse))
    /\ pc' = "SESSION_FAILED"
    /\ sessionReply' = NoReply
    /\ UNCHANGED <<variant, peer, completionCaught, waits, request, pending,
                   retries, caught, sessionResponse, completionRequest,
                   completionReply, completionResponse, sessionCalls,
                   completionCalls>>

SessionOk ==
    /\ pc = "ACQUIRING_SESSION"
    /\ GetNewSessionSettled
    /\ TruthyStatus(sessionResponse)
    /\ pc' = "SESSION_OK"
    /\ sessionReply' = NoReply
    /\ completionRequest' =
           CompletionArgument(variant, sessionResponse, request.body)
    /\ UNCHANGED <<variant, peer, completionCaught, waits, request, pending,
                   retries, caught, sessionResponse, completionReply,
                   completionResponse, responses, sessionCalls,
                   completionCalls>>

\* ------------------------------------------------- getCompletionWithOpenAi
\* line 117: no session, no network call
CompletionGuard ==
    /\ pc = "SESSION_OK"
    /\ ~SessionPresent(variant, completionRequest)
    /\ pc' = "COMPOSING_COMPLETION"
    /\ completionResponse' = handleErrorResponse(NullError)
    /\ UNCHANGED <<variant, peer, completionCaught, waits, sessionReply,
                   request, pending, retries, caught, sessionResponse,
                   completionRequest, completionReply, responses, sessionCalls,
                   completionCalls>>

\* lines 119-122: the POST is issued
CompletionPost ==
    /\ pc = "SESSION_OK"
    /\ SessionPresent(variant, completionRequest)
    /\ pc' = "COMPOSING_COMPLETION"
    /\ pending' = pending \cup {"completion"}
    /\ completionCalls' = completionCalls + 1
    /\ UNCHANGED <<variant, peer, completionCaught, waits, sessionReply,
                   request, retries, caught, sessionResponse,
                   completionRequest, completionReply, completionResponse,
                   responses, sessionCalls>>

\* the POST resolves (2xx): lines 123-125, or the catch clause when line 124
\* throws on a non-object body
CompletionReturns(reply) ==
    /\ "completion" \in pending
    /\ pending' = pending \ {"completion"}
    /\ completionReply' = reply
    /\ completionCaught' = IF IsObjectReply(reply) THEN NoError ELSE TypeError
    /\ completionResponse' =
           IF IsObjectReply(reply) THEN ToApiResponse(reply)
           ELSE ErrorResult(variant, TypeError, CompletionDefaultError)
    /\ UNCHANGED <<variant, peer, waits, sessionReply, pc, request, retries,
                   caught, sessionResponse, completionRequest, responses,
                   sessionCalls, completionCalls>>

\* the POST rejects: lines 126-131
CompletionThrows(error) ==
    /\ "completion" \in pending
    /\ ~handleErrorResponseThrows(error)
    /\ pending' = pending \ {"completion"}
    /\ completionCaught' = error
    /\ completionResponse' =
           ErrorResult(variant, error, CompletionDefaultError)
    /\ UNCHANGED <<variant, peer, waits, sessionReply, pc, request, retries,
                   caught, sessionResponse, completionRequest, completionReply,
                   responses, sessionCalls, completionCalls>>

\* the POST rejects and line 82 throws inside the catch clause
CompletionThrowsAgain(error) ==
    /\ "completion" \in pending
    /\ handleErrorResponseThrows(error)
    /\ pending' = pending \ {"completion"}
    /\ completionCaught' = error
    /\ pc' = "REJECTED"
    /\ UNCHANGED <<variant, peer, waits, sessionReply, request, retries,
                   caught, sessionResponse, completionRequest, completionReply,
                   completionResponse, responses, sessionCalls,
                   completionCalls>>

\* line 154; the terminal state is named after the relayed `status`
RelayCompletion ==
    /\ pc = "COMPOSING_COMPLETION"
    /\ completionResponse # NoResponse
    /\ Send(Relay(completionResponse))
    /\ pc' = IF TruthyStatus(completionResponse)
             THEN "COMPLETION_OK" ELSE "COMPLETION_FAILED"
    /\ UNCHANGED <<variant, peer, completionCaught, waits, sessionReply,
                   request, pending, retries, caught, sessionResponse,
                   completionRequest, completionReply, completionResponse,
                   sessionCalls, completionCalls>>

\* ------------------------------------------------------------ environment
SessionOkReplies ==
    { ObjectReply(s, b) : s \in UpstreamOkStatuses, b \in SessionBodies }
    \cup { TextReply(s) : s \in UpstreamOkStatuses }

CompletionOkReplies ==
    { ObjectReply(s, b) : s \in UpstreamOkStatuses,
                          b \in CompletionBodies \cup {completionRequest} }
    \cup { TextReply(s) : s \in UpstreamOkStatuses }

ThrownByCompletionFetch == ThrownBySessionFetch

Next ==
    \/ \E req \in Requests : Receive(req)
    \/ enableCORS
    \/ handleDefault
    \/ NotFound
    \/ handleConversation
    \/ \E reply \in SessionOkReplies : SessionReturns(reply)
    \/ \E reply \in SessionOkReplies : SessionBodyThrows(reply)
    \/ \E error \in ThrownBySessionFetch : SessionThrows(error)
    \/ TimerFires
    \/ Retry
    \/ GiveUp
    \/ GiveUpThrows
    \/ SessionFailed
    \/ SessionOk
    \/ CompletionGuard
    \/ CompletionPost
    \/ \E reply \in CompletionOkReplies : CompletionReturns(reply)
    \/ \E error \in ThrownByCompletionFetch : CompletionThrows(error)
    \/ \E error \in ThrownByCompletionFetch : CompletionThrowsAgain(error)
    \/ RelayCompletion

Spec == Init /\ [][Next]_vars

\* the session endpoint is unreachable: every GET fails without a response
NextNetDown ==
    \/ \E req \in Requests : Receive(req)
    \/ enableCORS
    \/ handleDefault
    \/ NotFound
    \/ handleConversation
    \/ SessionThrows(NetworkError)
    \/ TimerFires
    \/ Retry
    \/ GiveUp
    \/ SessionFailed

\* the event loop runs every continuation that is ready, and every
\* outbound call and timer settles
FairNetDown == Init /\ [][NextNetDown]_vars /\ WF_vars(NextNetDown)

\* ------------------------------------------------- two concurrent requests
\* the event loop turns to the other request: each action above is one
\* continuation run to completion (up to the next await of lines 95, 100,
\* 119, 141, 153), and between two of them a continuation of another
\* request can run
Switch ==
    /\ peer' = Frame
    /\ pc' = peer.pc
    /\ request' = peer.request
    /\ pending' = peer.pending
    /\ retries' = peer.retries
    /\ caught' = peer.caught
    /\ waits' = peer.waits
    /\ sessionReply' = peer.sessionReply
    /\ sessionResponse' = peer.sessionResponse
    /\ completionRequest' = peer.completionRequest
    /\ completionReply' = peer.completionReply
    /\ completionCaught' = peer.completionCaught
    /\ completionResponse' = peer.completionResponse
    /\ responses' = peer.responses
    /\ sessionCalls' = peer.sessionCalls
    /\ completionCalls' = peer.completionCalls
    /\ UNCHANGED variant

\* inbound requests that reach handleConversation
ChatRequests == { req \in Requests : Route(req) = "handleConversation" }

\* the session endpoint answers with a bundle only to one of the first
\* RecoverBy calls of a request, and never issues a bundle that another
\* request holds
FreshBundles ==
    { b \in Bundles : ~ (Has(peer.sessionResponse, "data")
                          /\ peer.sessionResponse.data = b) }

FreshSessionReplies ==
    IF sessionCalls <= RecoverBy
    THEN { ObjectReply(OkStatus, [status |-> TRUE, data |-> b]) :
             b \in FreshBundles }
    ELSE {}

\* the completion endpoint echoes what was posted, answers on its own, or
\* is unreachable
EchoReplies ==
    { ObjectReply(OkStatus, b) :
        b \in {completionRequest, [status |-> TRUE, data |-> "answer"]} }

NextConc ==
    \/ \E req \in ChatRequests : Receive(req)
    \/ handleConversation
    \/ \E reply \in FreshSessionReplies : SessionReturns(reply)
    \/ SessionThrows(NetworkError)
    \/ TimerFires
    \/ Retry
    \/ GiveUp
    \/ SessionFailed
    \/ SessionOk
    \/ CompletionPost
    \/ \E reply \in EchoReplies : CompletionReturns(reply)
    \/ CompletionThrows(NetworkError)
    \/ RelayCompletion
    \/ Switch

SpecConc == Init /\ [][NextConc]_vars

\* ====================================================================
\* Properties
\* ====================================================================
IsConversation ==
    request.method = "POST" /\ request.path = "/v1/chat/completions"

\* getNewSession has finished by giving up (its last attempt threw)
SessionGaveUp ==
    /\ pc \in {"ACQUIRING_SESSION", "SESSION_FAILED", "REJECTED"}
    /\ sessionResponse # NoResponse \/ pc = "REJECTED"
    /\ caught # NoError

\* number of session fetches of the run that have thrown so far
ThrownFailures == retries + (IF caught # NoError THEN 1 ELSE 0)

\* C1 (as stated): giving up happens after exactly 100 session-fetch calls,
\* and no run issues more than 100 session-fetch calls.
C1_AtMost100Calls ==
    /\ sessionCalls <= 100
    /\ (SessionGaveUp => sessionCalls = 100)

\* C1 (amended): a run of getNewSession whose first N session fetches throw
\* makes min(N + 1, 101) calls: it gives up only after exactly 101 failed
\* calls, the initial call plus newSessionRetries = 100 retries, and no run
\* issues more than 101 calls.
C1_AtMost101Calls ==
    /\ sessionCalls <= 101
    /\ (pc \notin {"idle", "START", "DONE"} => sessionCalls = retries + 1)
    /\ (SessionGaveUp => sessionCalls = 101 /\ retries = 100)
    /\ (sessionResponse # NoResponse \/ pc = "REJECTED"
            => sessionCalls = (IF ThrownFailures + 1 < 101
                               THEN ThrownFailures + 1 ELSE 101))

C1_Witness == SessionGaveUp /\ pc = "SESSION_FAILED" /\ sessionCalls = 101

\* C2: when every session fetch fails without a response, the POST handler
\* eventually responds with status 500 and a non-empty error string, never
\* before the 100 retries are used up, and makes no completion call.
C2_NetDownRespondsAfterRetries ==
    /\ [](IsConversation /\ responses # <<>> =>
            /\ Len(responses) = 1
            /\ responses[1].status = 500
            /\ responses[1].body.statusCode = 500
            /\ Has(responses[1].body, "error") /\ responses[1].body.error # ""
            /\ retries = 100
            /\ sessionCalls = 101)
    /\ [](completionCalls = 0 /\ "completion" \notin pending)
    /\ ((pc = "ACQUIRING_SESSION")
            ~> (pc = "SESSION_FAILED" /\ Len(responses) = 1))

C2_Witness ==
    /\ pc = "SESSION_FAILED"
    /\ retries = 100
    /\ caught = NetworkError
    /\ responses[1].status = 500

EchoRoundTrip ==
    /\ variant = "conversation"
    /\ pc \in {"COMPOSING_COMPLETION", "COMPLETION_OK", "COMPLETION_FAILED"}
    /\ \E b \in Bundles :
          sessionResponse = [statusCode |-> 200, status |-> TRUE, data |-> b]
    /\ completionReply = [status |-> 200, kind |-> "object",
                          data |-> completionRequest]
    /\ responses # <<>>

\* C4 (as stated): in the echo round trip the response is HTTP 200 with a
\* body equal to the composed request {session: bundle, conversation: C}.
C4_EchoBodyEqualsRequest ==
    EchoRoundTrip =>
        /\ Len(responses) = 1
        /\ responses[1].status = 200
        /\ responses[1].body =
               [session |-> sessionResponse.data, conversation |-> request.body]

\* C4 (amended): in the echo round trip the request sent upstream is
\* {session: bundle, conversation: C} and the response is HTTP 200 with that
\* request plus the one field statusCode = 200 as body.
C4_EchoBodyPlusStatusCode ==
    EchoRoundTrip =>
        /\ Len(responses) = 1
        /\ responses[1].status = 200
        /\ completionRequest =
               [session |-> sessionResponse.data, conversation |-> request.body]
        /\ responses[1].body =
               [session |-> sessionResponse.data, conversation |-> request.body,
                statusCode |-> 200]

C4_Witness == EchoRoundTrip /\ request.body.messages = 2

\* the completion step was reached without a session
NoSessionAtCompletion ==
    /\ pc \in {"COMPOSING_COMPLETION", "COMPLETION_OK", "COMPLETION_FAILED"}
    /\ ~Has(sessionResponse, "data")

\* C5: when the completion step is reached with an absent session,
\* getCompletionWithOpenAi returns statusCode 500 with status false and no
\* completion call is made.
C5_NoSessionNoCall ==
    NoSessionAtCompletion =>
        /\ completionCalls = 0
        /\ "completion" \notin pending
        /\ completionResponse # NoResponse
        /\ completionResponse.statusCode = 500
        /\ completionResponse.status = FALSE
        /\ (responses # <<>> => responses[1].status = 500)

C5_Witness ==
    /\ NoSessionAtCompletion
    /\ pc = "COMPLETION_FAILED"
    /\ sessionResponse.status = TRUE

\* the request names neither GET / nor POST /v1/chat/completions
OtherRequest ==
    /\ pc # "idle"
    /\ ~(request.method = "GET" /\ request.path = "/")
    /\ ~(request.method = "POST" /\ request.path = "/v1/chat/completions")

IsNotFoundResponse(r) ==
    /\ r.status = 404
    /\ Has(r.body, "error")
    /\ r.body.error.type = "invalid_request_error"

\* C6 (as stated): every request that is neither GET / nor
\* POST /v1/chat/completions is answered 404 with error.type
\* "invalid_request_error", whatever its method.
C6_OtherIsNotFound ==
    OtherRequest /\ pc = "DONE" =>
        Len(responses) = 1 /\ IsNotFoundResponse(responses[1])

\* C6 (amended): such a request is answered 404 with error.type
\* "invalid_request_error" unless its method is OPTIONS; an OPTIONS request
\* is answered 200 with an empty body by enableCORS, whatever its path.
C6_OtherIsNotFoundButOptions ==
    /\ (OtherRequest /\ pc # "START" /\ request.method # "OPTIONS" =>
            /\ pc = "DONE"
            /\ Len(responses) = 1
            /\ IsNotFoundResponse(responses[1])
            /\ responses[1].body.status = FALSE)
    /\ (pc \notin {"idle", "START"} /\ request.method = "OPTIONS" =>
            /\ pc = "DONE"
            /\ responses = <<[status |-> 200, body |-> EmptyObject]>>)

C6_Witness ==
    /\ pc = "DONE"
    /\ request.method = "PUT"
    /\ request.path = "/v1/chat/completions"
    /\ responses[1].status = 404

\* C7: the completion call is outstanding only after getNewSession has
\* returned, with no session fetch and no retry delay outstanding, and a
\* session fetch is never outstanding once a completion call was issued.
C7_SessionBeforeCompletion ==
    /\ ~({"session", "completion"} \subseteq pending)
    /\ ("completion" \in pending =>
            /\ pending = {"completion"}
            /\ sessionResponse # NoResponse
            /\ pc = "COMPOSING_COMPLETION")
    /\ (completionCalls > 0 => pending \subseteq {"completion"})
    /\ (pending \cap {"session", "timer"} # {} => completionCalls = 0)

C7_Witness == "completion" \in pending /\ retries = 2 /\ sessionCalls = 3

\* C8: when the result of getNewSession has a false (or no) status and the
\* handler has continued, the request is in SESSION_FAILED, the one
\* response sent is that result with its statusCode as HTTP status, and no
\* completion call was made.
C8_SessionFailureRelayed ==
    /\ ( /\ sessionResponse # NoResponse
         /\ ~(Has(sessionResponse, "status") /\ sessionResponse.status)
         /\ pc # "ACQUIRING_SESSION"
         => /\ pc = "SESSION_FAILED"
            /\ responses = <<[status |-> sessionResponse.statusCode,
                              body |-> sessionResponse]>>
            /\ completionCalls = 0
            /\ "completion" \notin pending
            /\ completionResponse = NoResponse )
    /\ (pc = "SESSION_FAILED" =>
            ~(Has(sessionResponse, "status") /\ sessionResponse.status))

C8_Witness ==
    /\ pc = "SESSION_FAILED"
    /\ sessionResponse.statusCode = 201
    /\ Has(sessionResponse, "data")
    /\ responses[1].body = sessionResponse

\* status is true exactly when error is absent and data is present
WellFormedResult(r) ==
    (Has(r, "status") /\ r.status) <=> (~Has(r, "error") /\ Has(r, "data"))

\* C9 (as stated): every result returned by getNewSession or
\* getCompletionWithOpenAi has status true iff error is absent and data is
\* present.
C9_ResultsWellFormed ==
    /\ (sessionResponse # NoResponse => WellFormedResult(sessionResponse))
    /\ (completionResponse # NoResponse => WellFormedResult(completionResponse))

BuiltFailure(r) ==
    /\ r.status = FALSE
    /\ ~Has(r, "data")
    /\ (variant = "conversation" => Has(r, "error") /\ r.error # "")

\* C9 (amended): every result the gateway builds itself (after a thrown
\* failure or for an absent session) has status false and no data, and in
\* the conversation variant a non-empty error; a 2xx upstream body is
\* passed on with the status, error and data it came with.
C9_BuiltResultsAreFailures ==
    /\ (sessionResponse # NoResponse /\ caught # NoError =>
            BuiltFailure(sessionResponse))
    /\ (completionResponse # NoResponse /\ completionReply.kind # "object" =>
            BuiltFailure(completionResponse))

C9_Witness ==
    /\ pc = "COMPLETION_FAILED"
    /\ completionReply = NoReply
    /\ completionCalls = 1
    /\ completionResponse.error = CompletionDefaultError
    /\ completionResponse.statusCode = 404

\* C10: a POST /v1/chat/completions request only visits the states of the
\* handler state machine, and once its handler has stopped it is in one of
\* the three terminal states with exactly one response sent.
C10_OneTerminalOneResponse ==
    IsConversation /\ pc # "idle" =>
        /\ pc \in {"START", "ACQUIRING_SESSION", "SESSION_FAILED", "SESSION_OK",
                   "COMPOSING_COMPLETION", "COMPLETION_FAILED", "COMPLETION_OK"}
        /\ (pc \in {"SESSION_FAILED", "COMPLETION_FAILED", "COMPLETION_OK"}
                => Len(responses) = 1)
        /\ (pc \notin {"SESSION_FAILED", "COMPLETION_FAILED", "COMPLETION_OK"}
                => Len(responses) = 0)

\* the completion call of the request was made and has settled, and the
\* handler is past line 153
CompletionCallOver ==
    /\ completionCalls > 0
    /\ "completion" \notin pending
    /\ pc # "COMPOSING_COMPLETION"

\* C13: at most one completion call is made for a request, and once it has
\* settled its result is what the caller gets, status code and body.
C13_CompletionOnceAndRelayed ==
    /\ completionCalls <= 1
    /\ (CompletionCallOver =>
            /\ completionResponse # NoResponse
            /\ Len(responses) = 1
            /\ responses[1].body = completionResponse
            /\ responses[1].status = completionResponse.statusCode)

\* C14: every session fetch after the first is issued only when the wait
\* started by the failure before it has elapsed: the k-th call follows k - 1
\* fired timers, and no fetch is outstanding while a timer is.
C14_WaitBetweenAttempts ==
    /\ (sessionCalls > 0 => waits >= sessionCalls - 1)
    /\ ("session" \in pending =>
            "timer" \notin pending /\ waits = sessionCalls - 1)
    /\ ("timer" \in pending => waits = sessionCalls - 1)

C14_Witness == "session" \in pending /\ sessionCalls = 3 /\ waits = 2

\* a failure result of getNewSession, or of a completion call that failed
SessionFailureResult == sessionResponse # NoResponse /\ caught # NoError
CompletionFailureResult ==
    completionResponse # NoResponse /\ completionCaught # NoError

NoUpstreamMessage(error) ==
    error.kind = "http" /\ ~Has(error.response.data, "message")

\* C15 (as stated): every failure result of getNewSession after the retries
\* are used up, and of a failed completion call, carries a non-empty error
\* string, the context default when the upstream error has no message.
C15_FailuresCarryError ==
    /\ (SessionFailureResult =>
            /\ Has(sessionResponse, "error") /\ sessionResponse.error # ""
            /\ (NoUpstreamMessage(caught) =>
                    sessionResponse.error = "Error while getting session..."))
    /\ (CompletionFailureResult =>
            /\ Has(completionResponse, "error") /\ completionResponse.error # ""
            /\ (NoUpstreamMessage(completionCaught) =>
                    completionResponse.error
                        = "Error while getting completions..."))

\* C15 (amended): in the conversation variant every such failure result
\* carries a non-empty error string, the context default when the upstream
\* error has no message; in the session-only variant no default is
\* substituted and the result then has no error field.
C15_FailuresCarryErrorInConversation ==
    /\ (SessionFailureResult /\ variant = "conversation" =>
            /\ Has(sessionResponse, "error") /\ sessionResponse.error # ""
            /\ (NoUpstreamMessage(caught) =>
                    sessionResponse.error = "Error while getting session..."))
    /\ (CompletionFailureResult /\ variant = "conversation" =>
            /\ Has(completionResponse, "error") /\ completionResponse.error # ""
            /\ (NoUpstreamMessage(completionCaught) =>
                    completionResponse.error
                        = "Error while getting completions..."))
    /\ (SessionFailureResult /\ variant = "session-only" =>
            (Has(sessionResponse, "error") <=> ~NoUpstreamMessage(caught)))
    /\ (CompletionFailureResult /\ variant = "session-only" =>
            (Has(completionResponse, "error")
                <=> ~NoUpstreamMessage(completionCaught)))

C15_Witness ==
    /\ variant = "conversation"
    /\ pc = "SESSION_FAILED"
    /\ NoUpstreamMessage(caught)
    /\ responses[1].body.error = SessionDefaultError

\* C16: every response sent for POST /v1/chat/completions has the
\* statusCode field of its JSON body as HTTP status.
C16_StatusEqualsBodyStatusCode ==
    IsConversation =>
        \A i \in 1..Len(responses) :
            /\ Has(responses[i].body, "statusCode")
            /\ responses[i].status = responses[i].body.statusCode

C16_Witness ==
    /\ pc = "COMPLETION_OK"
    /\ responses[1].status = 201
    /\ Has(completionReply.data, "statusCode")

\* C17: the result of getNewSession is that of its last attempt: a reply
\* that arrives after earlier failures is returned as it is, with its HTTP
\* status as statusCode and no error of an earlier attempt held; a failure
\* result has the status and the message of the error caught last.
C17_ResultOfLastAttempt ==
    /\ (sessionReply # NoReply =>
            /\ caught = NoError
            /\ sessionResponse
                 = With(sessionReply.data, "statusCode", sessionReply.status))
    /\ (SessionFailureResult =>
            /\ sessionReply = NoReply
            /\ sessionCalls = 101
            /\ sessionResponse.status = FALSE
            /\ sessionResponse.statusCode =
                 (IF caught.kind = "http" THEN caught.response.status ELSE 500)
            /\ (caught.kind # "http" =>
                    sessionResponse.error = "Internal server error")
            /\ (caught.kind = "http" /\ ~NoUpstreamMessage(caught) =>
                    sessionResponse.error = caught.response.data.message))

C17_Witness ==
    /\ sessionReply # NoReply
    /\ retries = 2
    /\ Has(sessionResponse, "data")

\* a request's own retry counter: one call per retry and the first one, and
\* giving up only after 101 calls of its own
OwnRetryBudget(f) ==
    /\ f.sessionCalls <= 101
    /\ (f.pc \notin {"idle", "START"} => f.sessionCalls = f.retries + 1)
    /\ (f.sessionResponse # NoResponse /\ f.caught # NoError =>
            f.sessionCalls = 101 /\ f.retries = 100)

\* the response a request gets, from the answers to its own outbound calls
OwnOutcome(f) ==
    IF f.completionCalls = 0 \/ f.completionCaught # NoError
    THEN [status |-> 500,
          body |-> [status |-> FALSE, statusCode |-> 500,
                    error |-> "Internal server error"]]
    ELSE [status |-> f.completionReply.status,
          body |-> With(f.completionReply.data, "statusCode",
                        f.completionReply.status)]

OwnResponse(f) ==
    /\ Len(f.responses) <= 1
    /\ (f.responses # <<>> =>
            /\ f.completionCalls = 0 => f.caught = NetworkError
            /\ f.completionCalls > 0 => f.caught = NoError
            /\ f.responses[1] = OwnOutcome(f))

\* C11: with two requests interleaved in any way, each request counts its
\* own retries (it gives up after 101 calls of its own, whatever failures
\* the other request had), and its response is the one that the answers to
\* its own session and completion calls determine.
C11_RequestsIndependent ==
    /\ OwnRetryBudget(Frame) /\ OwnRetryBudget(peer)
    /\ OwnResponse(Frame) /\ OwnResponse(peer)

C11_Witness ==
    /\ pc = "SESSION_FAILED" /\ sessionCalls = 101
    /\ peer.pc = "COMPLETION_OK" /\ peer.sessionCalls = 2

\* the session a request's completion call carried
PostedSession(f) ==
    IF variant = "conversation"
    THEN (IF Has(f.completionRequest, "session")
          THEN f.completionRequest.session ELSE EmptyObject)
    ELSE f.completionRequest

HoldsSession(f) == Has(f.sessionResponse, "data")

OwnSession(f, g) ==
    /\ f.completionCalls <= 1
    /\ (HoldsSession(f) => "session" \notin f.pending)
    /\ (f.completionCalls = 1 =>
            /\ HoldsSession(f)
            /\ PostedSession(f) = f.sessionResponse.data
            /\ (HoldsSession(g) => PostedSession(f) # g.sessionResponse.data))

\* C12: with two requests interleaved in any way, a request makes at most
\* one completion call, the session that call carries is the data of the
\* request's own successful session fetch, after which it fetches no other,
\* and it is not the bundle the other request obtained.
C12_SessionPerRequest == OwnSession(Frame, peer) /\ OwnSession(peer, Frame)

C12_Witness ==
    /\ completionCalls = 1 /\ peer.completionCalls = 1
    /\ pc = "COMPOSING_COMPLETION" /\ peer.pc = "COMPOSING_COMPLETION"
    /\ PostedSession(Frame) # PostedSession(peer)
    /\ PostedSession(Frame) \in Bundles

====
